---- MODULE Spec2Model ----
(***************************************************************************)
(* A model of the UDP tunnel of tunneludp_v1.c and tunneludp_v2.c: two     *)
(* processes, one started with -c (CLIENT, the Active endpoint "A") and    *)
(* one with -s (SERVER, the Passive endpoint "P"), each running main():    *)
(* set-up, the MAGIC_WORD handshake, and the select() relay loop between   *)
(* the tun/tap descriptor and the UDP socket.                              *)
(*                                                                         *)
(* buffer[e] holds the bytes of char buffer[BUFSIZE] that are known: the   *)
(* bytes after Len(buffer[e]) are indeterminate (never written, or written *)
(* from the indeterminate tail of a received datagram).  A datagram is     *)
(* [src, len, data]: len bytes on the wire, of which data is the known     *)
(* prefix.                                                                 *)
(***************************************************************************)
EXTENDS Integers, Sequences, FiniteSets, TLC

\* ------------------------------------------------------------ constants
BUFSIZE == 4096
CLIENT == 0
SERVER == 1

\* char MAGIC_WORD[] = "Wazaaaaaaaaaaahhhh !"; with its terminating NUL
MAGIC_WORD ==
  <<87, 97, 122, 97, 97, 97, 97, 97, 97, 97, 97, 97, 97, 97,
    104, 104, 104, 104, 32, 33, 0>>

\* sizeof(MAGIC_WORD)
SizeofMagic == Len(MAGIC_WORD)

\* ------------------------------------------------------------ bounds
\* events of the environment in one run: frames made readable on a tun/tap,
\* datagrams of a third sender, system calls that fail, signals
MaxEvents == 2
MaxFrameLen == 2    \* bytes of a frame

\* ------------------------------------------------------------ the two processes
Endpoints == {"A", "P"}

cliserv(e) == IF e = "A" THEN CLIENT ELSE SERVER

Other(e) == IF e = "A" THEN "P" ELSE "A"

\* addresses: an (IP, port) pair is one value
AddrA == "A:PORT"        \* the client host, bound to PORT
AddrP == "P:PORT"        \* the server host, bound to PORT
AddrAeph == "A:eph"      \* the client host, a port the kernel picked
AddrX == "X:any"         \* a third host
AddrZero == "0.0.0.0:0"  \* a sockaddr_in of zero bytes
AddrJunk == "junk"       \* an address no host has

HostAddr(e) == IF e = "A" THEN AddrA ELSE AddrP

AddrAny == "0.0.0.0:PORT" \* htonl(INADDR_ANY) with htons(PORT)

\* A struct sockaddr_in that was never written.  What it holds is fixed by
\* the build and the run but unknown: the value is drawn from UninitAddrs at
\* the first read, and kept.
Uninit == "uninit"
UninitAddrs == {AddrJunk, AddrX, AddrA, AddrP, AddrZero}

Known(a) == IF a = Uninit THEN UninitAddrs ELSE {a}

\* inet_aton(server_ip, &server_addr.sin_addr) with sin_port = htons(PORT)
ConfiguredServer == AddrP

VARIABLES
  variant,      \* 1: tunneludp_v1.c, 2: tunneludp_v2.c (both processes)
  pc,           \* where each process is in main()
  laddr,        \* the local address of sock_fd, "none" while it has none
  buffer,       \* char buffer[BUFSIZE]: its known prefix
  server_addr,  \* struct sockaddr_in server_addr
  client_addr,  \* struct sockaddr_in client_addr
  remote_addr,  \* struct sockaddr_in remote_addr (v2)
  read_addr,    \* struct sockaddr_in read_addr (v2)
  rd_set,       \* fd_set rd_set after select()
  sockq,        \* datagrams queued on each socket, oldest first
  tapIn,        \* frames readable on each tun/tap, oldest first
  tapOut,       \* history: the write() calls on each tun/tap
  sent,         \* history: the sendto() calls of each process
  rcvd,         \* history: the datagrams recvfrom() returned to each process
  failed,       \* history: the calls that failed in each process
  nfail,        \* failures and interruptions so far
  ninj,         \* datagrams of the third sender so far
  nframes       \* frames made readable on each tun/tap so far

vars == <<variant, pc, laddr, buffer, server_addr, client_addr, remote_addr,
          read_addr, rd_set, sockq, tapIn, tapOut, sent, rcvd, failed,
          nfail, ninj, nframes>>

addrs == <<server_addr, client_addr, remote_addr, read_addr>>
env == <<ninj, nframes>>

\* ------------------------------------------------------------ helpers
Min(a, b) == IF a < b THEN a ELSE b

IsPrefix(s, t) == Len(s) <= Len(t) /\ SubSeq(t, 1, Len(s)) = s

\* Store with the bytes that arrived left out of the buffer
Store_Discard(buf, len, data) == buf

\* The bytes of buf after n bytes were stored at its start by read() or
\* recvfrom(): data is the known prefix of the len bytes that arrived.
Store(buf, len, data) ==
  LET n == Min(len, BUFSIZE) IN
  IF Len(data) >= n
    THEN SubSeq(data, 1, n) \o SubSeq(buf, n + 1, Len(buf))
    ELSE data

\* strncmp(s, buf, n): the set of results it can give, 0 for equal and 1 for
\* different; a comparison that reaches an indeterminate byte can give both.
RECURSIVE StrncmpFrom(_, _, _, _)
StrncmpFrom(s, buf, i, n) ==
  IF i > n THEN {0}
  ELSE IF i > Len(buf) THEN {0, 1}
  ELSE IF s[i] # buf[i] THEN {1}
  ELSE IF s[i] = 0 THEN {0}
  ELSE StrncmpFrom(s, buf, i + 1, n)

Strncmp(s, buf, n) == StrncmpFrom(s, buf, 1, n)

\* strncmp(MAGIC_WORD, buffer, sizeof(MAGIC_WORD) != 0): the third argument
\* is the value of the comparison, 1
ClientCmpLen == IF SizeofMagic # 0 THEN 1 ELSE 0

\* strncmp(MAGIC_WORD, buffer, sizeof(MAGIC_WORD))
ServerCmpLen == SizeofMagic

\* the socket a datagram addressed to dst is queued on, if any
Bound(la, dst) == {e \in Endpoints : la[e] = dst}

\* the queues after a datagram for dst left a socket with local address src
Deliver(q, la, src, dst, len, data) ==
  [e \in Endpoints |->
     IF e \in Bound(la, dst)
       THEN Append(q[e], [src |-> src, len |-> len, data |-> data])
       ELSE q[e]]

\* outcomes a system call can have: TRUE it succeeds, FALSE it fails
Outcomes == BOOLEAN

\* events of the environment so far
Events == nfail + ninj + nframes["A"] + nframes["P"]

\* the calls of e in `calls' failed
Fails(e, calls) ==
  /\ Events + Cardinality(calls) <= MaxEvents
  /\ nfail' = nfail + Cardinality(calls)
  /\ failed' = [failed EXCEPT ![e] = @ \cup calls]

Fail(e, ok, call) == Fails(e, IF ok THEN {} ELSE {call})

InRelay(e) == pc[e] \in {"select", "relay_tap", "relay_sock"}

InHandshake(e) == pc[e] \in {"hs_send", "hs_recv", "hs_echo"}

\* PeerAddr with v1's two address variables taken for each other
PeerAddr_Swapped(e) ==
  IF variant = 2 THEN remote_addr[e]
  ELSE IF cliserv(e) = CLIENT THEN client_addr[e] ELSE server_addr[e]

\* the destination of the relay loop's sendto()
PeerAddr(e) ==
  IF variant = 2 THEN remote_addr[e]
  ELSE IF cliserv(e) = CLIENT THEN server_addr[e] ELSE client_addr[e]

\* ------------------------------------------------------------ initial state
Init ==
  /\ variant \in {1, 2}
  /\ pc = [e \in Endpoints |-> "tun_alloc"]
  /\ laddr = [e \in Endpoints |-> "none"]
  /\ buffer = [e \in Endpoints |-> <<>>]
  /\ server_addr = [e \in Endpoints |-> Uninit]
  /\ client_addr = [e \in Endpoints |-> Uninit]
  /\ remote_addr = [e \in Endpoints |-> Uninit]
  /\ read_addr = [e \in Endpoints |-> Uninit]
  /\ rd_set = [e \in Endpoints |-> {}]
  /\ sockq = [e \in Endpoints |-> <<>>]
  /\ tapIn = [e \in Endpoints |-> <<>>]
  /\ tapOut = [e \in Endpoints |-> <<>>]
  /\ sent = [e \in Endpoints |-> <<>>]
  /\ rcvd = [e \in Endpoints |-> <<>>]
  /\ failed = [e \in Endpoints |-> {}]
  /\ nfail = 0
  /\ ninj = 0
  /\ nframes = [e \in Endpoints |-> 0]

\* ------------------------------------------------------------ set-up
\* the local addresses la once e called sendto(): a socket that is not bound
\* (v1's client after its bind() failed) is given a port by the kernel
Autobound(la, e) ==
  IF la[e] = "none" THEN [la EXCEPT ![e] = AddrAeph] ELSE la

\* the local addresses la when e goes on at `next': exit() closes sock_fd and
\* tap_fd, and the address the socket was bound to is bound by no socket any
\* more
Closed(la, e, next) ==
  IF next = "exited" THEN [la EXCEPT ![e] = "none"] ELSE la

\* the queues q, of the sockets or of the tun/tap devices, when e goes on at
\* `next': the datagrams queued on a socket that exit() closes are dropped,
\* and so are the frames of a tun/tap device, which is removed when its
\* descriptor is closed
Dropped(q, e, next) ==
  IF next = "exited" THEN [q EXCEPT ![e] = <<>>] ELSE q

\* SendTo with the call recorded before the calls made earlier
SendTo_Prepend(e, ok, la, dst, len, data) ==
  /\ sent' = [sent EXCEPT ![e] =
       <<[dst |-> dst, len |-> len, data |-> data, ok |-> ok,
          hs |-> ~InRelay(e),
          delivered |-> ok /\ Bound(la, dst) # {}]>> \o @]
  /\ sockq' = IF ok THEN Deliver(sockq, la, la[e], dst, len, data) ELSE sockq

\* sendto(sock_fd, data, len, 0, dst, ...) by e: the call is recorded, and the
\* datagram is queued on the socket bound to dst when the call succeeds
SendTo(e, ok, la, dst, len, data) ==
  /\ sent' = [sent EXCEPT ![e] =
       Append(@, [dst |-> dst, len |-> len, data |-> data, ok |-> ok,
                  hs |-> ~InRelay(e),
                  delivered |-> ok /\ Bound(la, dst) # {}])]
  /\ sockq' = IF ok THEN Deliver(sockq, la, la[e], dst, len, data) ELSE sockq

\* if ((tap_fd = tun_alloc(if_name, flags | IFF_NO_PI)) < 0) exit(1);
TunAlloc(e, oks) ==
  /\ pc[e] = "tun_alloc"
  /\ \E ok \in oks :
       /\ Fail(e, ok, "tun_alloc")
       /\ pc' = [pc EXCEPT ![e] = IF ok THEN "socket" ELSE "exited"]
  /\ UNCHANGED <<variant, laddr, buffer, addrs, rd_set, sockq, tapIn, tapOut,
                 sent, rcvd, env>>

\* if ((sock_fd = socket(PF_INET, SOCK_DGRAM, 0)) < 0) exit(1); the client
\* then fills client_addr, and in v2 server_addr too (v1 fills server_addr
\* after bind())
Socket(e, oks) ==
  /\ pc[e] = "socket"
  /\ \E ok \in oks :
       /\ Fail(e, ok, "socket")
       /\ pc' = [pc EXCEPT ![e] =
            IF ~ok THEN "exited"
            ELSE IF cliserv(e) = CLIENT THEN "bind" ELSE "setsockopt"]
       /\ IF ok /\ cliserv(e) = CLIENT
            THEN /\ client_addr' = [client_addr EXCEPT ![e] = AddrAny]
                 /\ server_addr' =
                      IF variant = 2
                        THEN [server_addr EXCEPT ![e] = ConfiguredServer]
                        ELSE server_addr
            ELSE UNCHANGED <<client_addr, server_addr>>
       /\ tapIn' = Dropped(tapIn, e, IF ok THEN "bind" ELSE "exited")
  /\ UNCHANGED <<variant, laddr, buffer, remote_addr, read_addr, rd_set, sockq,
                 tapOut, sent, rcvd, env>>

\* server: if (setsockopt(sock_fd, SOL_SOCKET, SO_REUSEADDR, ...) < 0) exit(1);
\* then memset(&server_addr, 0, ...) and its three fields
SetSockOpt(e, oks) ==
  /\ pc[e] = "setsockopt"
  /\ \E ok \in oks :
       /\ Fail(e, ok, "setsockopt")
       /\ pc' = [pc EXCEPT ![e] = IF ok THEN "bind" ELSE "exited"]
       /\ server_addr' = IF ok THEN [server_addr EXCEPT ![e] = AddrAny]
                         ELSE server_addr
       /\ tapIn' = Dropped(tapIn, e, IF ok THEN "bind" ELSE "exited")
  /\ UNCHANGED <<variant, laddr, buffer, client_addr, remote_addr, read_addr,
                 rd_set, sockq, tapOut, sent, rcvd, env>>

\* where a failed bind() leaves the process: v1's client only reports it
AfterBindFailure(e) ==
  IF variant = 1 /\ cliserv(e) = CLIENT THEN "hs_send" ELSE "exited"

\* bind(sock_fd, ...); v1's client then fills server_addr, whatever bind()
\* returned, and v1's server then zeroes client_addr
Bind(e, oks) ==
  /\ pc[e] = "bind"
  /\ \E ok \in oks :
       /\ Fail(e, ok, "bind")
       /\ laddr' = IF ok THEN [laddr EXCEPT ![e] = HostAddr(e)] ELSE laddr
       /\ pc' = [pc EXCEPT ![e] =
            IF ~ok THEN AfterBindFailure(e)
            ELSE IF cliserv(e) = CLIENT THEN "hs_send" ELSE "hs_recv"]
       /\ client_addr' =
            IF ok /\ variant = 1 /\ cliserv(e) = SERVER
              THEN [client_addr EXCEPT ![e] = AddrZero]
              ELSE client_addr
       /\ server_addr' =
            IF variant = 1 /\ cliserv(e) = CLIENT
              THEN [server_addr EXCEPT ![e] = ConfiguredServer]
              ELSE server_addr
       /\ tapIn' = Dropped(tapIn, e,
                           IF ok THEN "hs_send" ELSE AfterBindFailure(e))
  /\ UNCHANGED <<variant, buffer, remote_addr, read_addr, rd_set, sockq,
                 tapOut, sent, rcvd, env>>

\* ------------------------------------------------------------ handshake
\* client: sendto(sock_fd, MAGIC_WORD, sizeof(MAGIC_WORD), 0, &server_addr, ...);
\* a failure is reported and main() goes on.  A socket that is not bound is
\* given a port by the kernel; a call that fails has done so or not, as it
\* failed after or before that.
ClientSendMagic(e, oks) ==
  /\ pc[e] = "hs_send"
  /\ \E ok \in oks :
       LET la == Autobound(laddr, e)
       IN /\ Fail(e, ok, "hs_sendto")
          /\ laddr' \in (IF ok THEN {la} ELSE {la, laddr})
          /\ SendTo(e, ok, la, server_addr[e], SizeofMagic, MAGIC_WORD)
  /\ pc' = [pc EXCEPT ![e] = "hs_recv"]
  /\ UNCHANGED <<variant, buffer, addrs, rd_set, tapIn, tapOut, rcvd, env>>

\* RecvFromAddr with the source of the datagram not stored
RecvFromAddr_Keep(ok, src, old) == old

\* the sockaddr_in recvfrom() was given for the source, which held old, after
\* the call: the source src of the datagram, or old when the call failed
RecvFromAddr(ok, src, old) == IF ok THEN src ELSE old

\* where the client goes after strncmp() gave r: v2 leaves on a difference,
\* v1 only reports it
AfterClientCmp(r) ==
  IF variant = 2 /\ r # 0 THEN "exited" ELSE "select"

\* client: recvfrom(sock_fd, buffer, sizeof(buffer), 0, &server_addr, &serverlen),
\* a failure is reported and main() goes on; then the strncmp() test, and in
\* v2 remote_addr = server_addr
ClientRecvMagic(e, oks) ==
  /\ pc[e] = "hs_recv"
  /\ cliserv(e) = CLIENT
  /\ \E ok \in oks :
       /\ ok => sockq[e] # <<>>
       /\ Fail(e, ok, "hs_recvfrom")
       /\ LET d == Head(sockq[e])
              buf == IF ok THEN Store(buffer[e], d.len, d.data) ELSE buffer[e]
              from == RecvFromAddr(ok, IF ok THEN d.src ELSE Uninit,
                                   server_addr[e])
          IN /\ buffer' = [buffer EXCEPT ![e] = buf]
             /\ server_addr' = [server_addr EXCEPT ![e] = from]
             /\ rcvd' = IF ok THEN [rcvd EXCEPT ![e] =
                                      Append(@, [src |-> d.src, len |-> d.len,
                                                 data |-> d.data, hs |-> TRUE])]
                        ELSE rcvd
             /\ \E r \in Strncmp(MAGIC_WORD, buf, ClientCmpLen) :
                  /\ pc' = [pc EXCEPT ![e] = AfterClientCmp(r)]
                  /\ remote_addr' =
                       IF variant = 2 /\ AfterClientCmp(r) = "select"
                         THEN [remote_addr EXCEPT ![e] = from]
                         ELSE remote_addr
                  /\ laddr' = Closed(laddr, e, AfterClientCmp(r))
                  /\ sockq' = Dropped(IF ok THEN [sockq EXCEPT ![e] = Tail(@)]
                                      ELSE sockq, e, AfterClientCmp(r))
                  /\ tapIn' = Dropped(tapIn, e, AfterClientCmp(r))
  /\ UNCHANGED <<variant, client_addr, read_addr, rd_set, tapOut, sent, env>>

\* AfterServerCmp with the test of strncmp()'s result inverted
AfterServerCmp_Inverted(r) ==
  IF r # 0 THEN "hs_echo"
  ELSE IF variant = 1 THEN "hs_recv" ELSE "exited"

\* where the server goes after strncmp() gave r: on a difference v1 waits for
\* the next datagram and v2 leaves
AfterServerCmp(r) ==
  IF r = 0 THEN "hs_echo"
  ELSE IF variant = 1 THEN "hs_recv" ELSE "exited"

\* server: recvfrom(sock_fd, buffer, sizeof(buffer), 0, &client_addr, &clientlen),
\* a failure is reported and main() goes on; then the strncmp() test
ServerRecvMagic(e, oks) ==
  /\ pc[e] = "hs_recv"
  /\ cliserv(e) = SERVER
  /\ \E ok \in oks :
       /\ ok => sockq[e] # <<>>
       /\ Fail(e, ok, "hs_recvfrom")
       /\ LET d == Head(sockq[e])
              buf == IF ok THEN Store(buffer[e], d.len, d.data) ELSE buffer[e]
          IN /\ buffer' = [buffer EXCEPT ![e] = buf]
             /\ client_addr' = IF ok THEN [client_addr EXCEPT ![e] = d.src]
                               ELSE client_addr
             /\ rcvd' = IF ok THEN [rcvd EXCEPT ![e] =
                                      Append(@, [src |-> d.src, len |-> d.len,
                                                 data |-> d.data, hs |-> TRUE])]
                        ELSE rcvd
             /\ \E r \in Strncmp(MAGIC_WORD, buf, ServerCmpLen) :
                  /\ pc' = [pc EXCEPT ![e] = AfterServerCmp(r)]
                  /\ laddr' = Closed(laddr, e, AfterServerCmp(r))
                  /\ sockq' = Dropped(IF ok THEN [sockq EXCEPT ![e] = Tail(@)]
                                      ELSE sockq, e, AfterServerCmp(r))
                  /\ tapIn' = Dropped(tapIn, e, AfterServerCmp(r))
  /\ UNCHANGED <<variant, server_addr, remote_addr, read_addr, rd_set, tapOut,
                 sent, env>>

\* server: sendto(sock_fd, MAGIC_WORD, sizeof(MAGIC_WORD), 0, &client_addr,
\* clientlen), a failure is reported and main() goes on; in v2
\* remote_addr = client_addr
ServerEchoMagic(e, oks) ==
  /\ pc[e] = "hs_echo"
  /\ \E ok \in oks, to \in Known(client_addr[e]) :
       /\ Fail(e, ok, "hs_sendto")
       /\ SendTo(e, ok, laddr, to, SizeofMagic, MAGIC_WORD)
       /\ client_addr' = [client_addr EXCEPT ![e] = to]
       /\ remote_addr' = IF variant = 2 THEN [remote_addr EXCEPT ![e] = to]
                         ELSE remote_addr
  /\ pc' = [pc EXCEPT ![e] = "select"]
  /\ UNCHANGED <<variant, laddr, buffer, server_addr, read_addr, rd_set, tapIn,
                 tapOut, rcvd, env>>

\* ------------------------------------------------------------ relay loop
\* the descriptors select() reports readable
Ready(e) ==
  (IF tapIn[e] # <<>> THEN {"tap_fd"} ELSE {}) \cup
  (IF sockq[e] # <<>> THEN {"sock_fd"} ELSE {})

\* FirstBranch with the socket tested first and the tun/tap in its else
FirstBranch_SockFirst(rd) ==
  IF "sock_fd" \in rd THEN "relay_sock" ELSE "relay_tap"

\* the first branch of an iteration in which select() reported rd (not
\* empty): if (FD_ISSET(tap_fd, &rd_set)) comes first
FirstBranch(rd) ==
  IF "tap_fd" \in rd THEN "relay_tap" ELSE "relay_sock"

\* AfterTapBranch with the socket branch under `else if'
AfterTapBranch_Else(rd) == "select"

\* what follows the tun/tap branch in an iteration in which select()
\* reported rd: the second if, if (FD_ISSET(sock_fd, &rd_set)), is no else
AfterTapBranch(rd) ==
  IF "sock_fd" \in rd THEN "relay_sock" ELSE "select"

\* ret = select(maxfd + 1, &rd_set, NULL, NULL, NULL) returns the readable
\* descriptors once there is one
Select(e) ==
  /\ pc[e] = "select"
  /\ Ready(e) # {}
  /\ rd_set' = [rd_set EXCEPT ![e] = Ready(e)]
  /\ pc' = [pc EXCEPT ![e] = FirstBranch(Ready(e))]
  /\ UNCHANGED <<variant, laddr, buffer, addrs, sockq, tapIn, tapOut, sent,
                 rcvd, failed, nfail, env>>

\* SelectEINTR without the test of errno: the next test, ret < 0, ends the
\* process
SelectEINTR_Exit(e) ==
  /\ pc[e] = "select"
  /\ Fails(e, {"EINTR"})
  /\ pc' = [pc EXCEPT ![e] = "exited"]
  /\ laddr' = Closed(laddr, e, "exited")
  /\ sockq' = Dropped(sockq, e, "exited")
  /\ tapIn' = Dropped(tapIn, e, "exited")
  /\ UNCHANGED <<variant, buffer, addrs, rd_set, tapOut, sent, rcvd, env>>

\* if (ret < 0 && errno == EINTR) continue;
SelectEINTR(e) ==
  /\ pc[e] = "select"
  /\ Fails(e, {"EINTR"})
  /\ UNCHANGED <<variant, pc, laddr, buffer, addrs, rd_set, sockq, tapIn,
                 tapOut, sent, rcvd, env>>

\* SelectFail with every failure of select() taken for an interruption
SelectFail_Continue(e) ==
  /\ pc[e] = "select"
  /\ Fails(e, {"select"})
  /\ UNCHANGED <<variant, pc, laddr, buffer, addrs, rd_set, sockq, tapIn,
                 tapOut, sent, rcvd, env>>

\* if (ret < 0) { perror("select()"); exit(1); }
SelectFail(e) ==
  /\ pc[e] = "select"
  /\ Fails(e, {"select"})
  /\ pc' = [pc EXCEPT ![e] = "exited"]
  /\ laddr' = Closed(laddr, e, "exited")
  /\ sockq' = Dropped(sockq, e, "exited")
  /\ tapIn' = Dropped(tapIn, e, "exited")
  /\ UNCHANGED <<variant, buffer, addrs, rd_set, tapOut, sent, rcvd, env>>

\* TransferLen with the length of the handshake's sendto()
TransferLen_Magic == SizeofMagic

\* the length of both transfers of the loop: sizeof(buffer)
TransferLen == BUFSIZE

\* AfterTransfer with a failed call ending the process, as cread() and
\* cwrite() do
AfterTransfer_Fatal(ok1, ok2, next) ==
  IF ok1 /\ ok2 THEN next ELSE "exited"

\* Where the loop goes after a transfer whose two calls had the results ok1
\* and ok2: `if (call(...)) perror(...)' only reports, so to `next'.
AfterTransfer(ok1, ok2, next) == next

\* AfterNetToTap with the handshake's test of the buffer made in the loop
AfterNetToTap_CheckMagic(buf) ==
  IF Strncmp(MAGIC_WORD, buf, ServerCmpLen) = {0} THEN "exited" ELSE "select"

\* Where the loop goes after the socket branch left buf in the buffer: the
\* loop never looks at what it relays, so to the next select().
AfterNetToTap(buf) == "select"

\* if (FD_ISSET(tap_fd, &rd_set)): read(tap_fd, buffer, sizeof(buffer)), then
\* sendto(sock_fd, buffer, sizeof(buffer), 0, peer, ...); both results are
\* only reported.  A socket that is not bound is given a port by the kernel;
\* a sendto() that fails has done so or not, as it failed after or before
\* that.
TapToNet(e, oks) ==
  /\ pc[e] = "relay_tap"
  /\ \E rok \in oks, sok \in oks :
       /\ rok => tapIn[e] # <<>>
       /\ Fails(e, (IF rok THEN {} ELSE {"read"}) \cup
                   (IF sok THEN {} ELSE {"sendto"}))
       /\ LET f == Head(tapIn[e])
              buf == IF rok THEN Store(buffer[e], Len(f), f) ELSE buffer[e]
              la == Autobound(laddr, e)
          IN /\ buffer' = [buffer EXCEPT ![e] = buf]
             /\ tapIn' = IF rok THEN [tapIn EXCEPT ![e] = Tail(@)] ELSE tapIn
             /\ laddr' \in (IF sok THEN {la} ELSE {la, laddr})
             /\ SendTo(e, sok, la, PeerAddr(e), TransferLen, buf)
       /\ pc' = [pc EXCEPT ![e] =
            AfterTransfer(rok, sok, AfterTapBranch(rd_set[e]))]
  /\ rd_set' = IF AfterTapBranch(rd_set[e]) = "relay_sock" THEN rd_set
               ELSE [rd_set EXCEPT ![e] = {}]
  /\ UNCHANGED <<variant, addrs, tapOut, rcvd, env>>

\* AddrsAfterRecv without v2's remote_addr = read_addr
AddrsAfterRecv_NoLearn(e, ok, from, junk) ==
  /\ read_addr' = IF variant = 2
                    THEN [read_addr EXCEPT ![e] = IF ok THEN from ELSE junk]
                    ELSE read_addr
  /\ UNCHANGED <<server_addr, client_addr, remote_addr>>

\* the address variables after the loop's recvfrom() of a datagram from
\* `from' (ok) or its failure: v1 receives into server_addr (client) or
\* client_addr (server); v2 receives into read_addr and copies it to
\* remote_addr whatever recvfrom() returned
AddrsAfterRecv(e, ok, from, junk) ==
  IF variant = 1
    THEN /\ server_addr' = IF ok /\ cliserv(e) = CLIENT
                             THEN [server_addr EXCEPT ![e] = from]
                             ELSE server_addr
         /\ client_addr' = IF ok /\ cliserv(e) = SERVER
                             THEN [client_addr EXCEPT ![e] = from]
                             ELSE client_addr
         /\ UNCHANGED <<remote_addr, read_addr>>
    ELSE /\ read_addr' = [read_addr EXCEPT ![e] = IF ok THEN from ELSE junk]
         /\ remote_addr' = [remote_addr EXCEPT ![e] = IF ok THEN from ELSE junk]
         /\ UNCHANGED <<server_addr, client_addr>>

\* if (FD_ISSET(sock_fd, &rd_set)): recvfrom(sock_fd, buffer, sizeof(buffer),
\* 0, &addr, &len), then write(tap_fd, buffer, sizeof(buffer)); both results
\* are only reported
NetToTap(e, oks) ==
  /\ pc[e] = "relay_sock"
  /\ \E rok \in oks, wok \in oks, junk \in Known(read_addr[e]) :
       /\ rok => sockq[e] # <<>>
       /\ Fails(e, (IF rok THEN {} ELSE {"recvfrom"}) \cup
                   (IF wok THEN {} ELSE {"write"}))
       /\ LET d == Head(sockq[e])
              buf == IF rok THEN Store(buffer[e], d.len, d.data) ELSE buffer[e]
          IN /\ buffer' = [buffer EXCEPT ![e] = buf]
             /\ sockq' = IF rok THEN [sockq EXCEPT ![e] = Tail(@)] ELSE sockq
             /\ rcvd' = IF rok THEN [rcvd EXCEPT ![e] =
                                       Append(@, [src |-> d.src, len |-> d.len,
                                                  data |-> d.data, hs |-> FALSE])]
                        ELSE rcvd
             /\ AddrsAfterRecv(e, rok, IF rok THEN d.src ELSE junk, junk)
             /\ tapOut' = [tapOut EXCEPT ![e] =
                  Append(@, [len |-> TransferLen, data |-> buf, ok |-> wok])]
             /\ pc' = [pc EXCEPT ![e] =
                  AfterTransfer(rok, wok, AfterNetToTap(buf))]
  /\ rd_set' = [rd_set EXCEPT ![e] = {}]
  /\ UNCHANGED <<variant, laddr, tapIn, sent, env>>

\* ------------------------------------------------------------ environment
FrameId(e, k) == (IF e = "A" THEN 100 ELSE 200) + k

\* the k-th frame of e's tun/tap: n bytes, different from every other frame
Frame(e, k, n) == [i \in 1..n |-> FrameId(e, k)]

\* the kernel makes a frame readable on e's tun/tap
TapArrive(e) ==
  /\ pc[e] \notin {"tun_alloc", "exited"}
  /\ Events < MaxEvents
  /\ \E n \in 1..MaxFrameLen :
       tapIn' = [tapIn EXCEPT ![e] = Append(@, Frame(e, nframes[e] + 1, n))]
  /\ nframes' = [nframes EXCEPT ![e] = @ + 1]
  /\ UNCHANGED <<variant, pc, laddr, buffer, addrs, rd_set, sockq, tapOut,
                 sent, rcvd, failed, nfail, ninj>>

\* payloads of the datagrams a third sender, or the network repeating a
\* datagram, puts on a socket: the token, the token and one more byte
\* "!", "Xazaaaaaaaaaaahhhh !", "W", "Bad"
Payloads ==
  { MAGIC_WORD,
    MAGIC_WORD \o <<33>>,
    <<88>> \o Tail(MAGIC_WORD),
    <<87>>,
    <<66, 97, 100>> }

\* a datagram with source address src arrives on e's bound socket
Inject(e) ==
  /\ laddr[e] # "none"
  /\ pc[e] # "exited"
  /\ Events < MaxEvents
  /\ \E src \in {AddrX, HostAddr(Other(e))}, p \in Payloads :
       sockq' = [sockq EXCEPT ![e] =
                   Append(@, [src |-> src, len |-> Len(p), data |-> p])]
  /\ ninj' = ninj + 1
  /\ UNCHANGED <<variant, pc, laddr, buffer, addrs, rd_set, tapIn, tapOut,
                 sent, rcvd, failed, nfail, nframes>>

\* ------------------------------------------------------------ specifications
\* a step of main() in process e, each system call with an outcome of oks
Main(e, oks) ==
  \/ TunAlloc(e, oks)
  \/ Socket(e, oks)
  \/ SetSockOpt(e, oks)
  \/ Bind(e, oks)
  \/ ClientSendMagic(e, oks)
  \/ ClientRecvMagic(e, oks)
  \/ ServerRecvMagic(e, oks)
  \/ ServerEchoMagic(e, oks)
  \/ Select(e)
  \/ TapToNet(e, oks)
  \/ NetToTap(e, oks)

Next ==
  \/ \E e \in Endpoints : Main(e, Outcomes)
  \/ \E e \in Endpoints : SelectEINTR(e)
  \/ \E e \in Endpoints : SelectFail(e)
  \/ \E e \in Endpoints : TapArrive(e)
  \/ \E e \in Endpoints : Inject(e)

Spec == Init /\ [][Next]_vars

\* No system call fails, no signal arrives and no third sender exists; a
\* process that can take a step of main() takes it.
LiveNext ==
  \/ \E e \in Endpoints : Main(e, {TRUE})
  \/ \E e \in Endpoints : TapArrive(e)

LiveSpec ==
  /\ Init
  /\ [][LiveNext]_vars
  /\ \A e \in Endpoints : WF_vars(Main(e, {TRUE}))

\* ------------------------------------------------------------ properties
Last(q) == q[Len(q)]

IsHs(r) == r.hs

\* the datagrams recvfrom() returned to e during its handshake
HsRcvd(e) == SelectSeq(rcvd[e], IsHs)

\* the sendto() calls of e during its handshake
HsSent(e) == SelectSeq(sent[e], IsHs)

IsToken(d) == d.len = SizeofMagic /\ d.data = MAGIC_WORD

\* the payload starts with the bytes of the token
HasToken(d) == d.len >= SizeofMagic /\ IsPrefix(MAGIC_WORD, d.data)

BothInRelay == InRelay("A") /\ InRelay("P")

BothInRelayAsPeers ==
  /\ BothInRelay
  /\ PeerAddr("P") = AddrA
  /\ PeerAddr("A") = AddrP

\* the client's token was queued on the server's socket: the socket was bound
\* when the client sent
TokenQueued == sent["A"] # <<>> /\ sent["A"][1].delivered

\* C1 as stated: with no failing call and no third sender, both endpoints
\* eventually are in the relay loop, each with the other's address as peer.
C1_Original == <>BothInRelayAsPeers

\* C1, amended: if the Passive endpoint's socket is bound when the Active
\* endpoint sends the token, both endpoints eventually are in the relay loop,
\* and whenever an endpoint is in the relay loop its peer address is the other
\* endpoint's address.
C1_Handshake ==
  /\ [](TokenQueued => <>BothInRelayAsPeers)
  /\ [](\A e \in Endpoints : InRelay(e) => PeerAddr(e) = HostAddr(Other(e)))

C1_Witness == BothInRelayAsPeers /\ TokenQueued

\* C2: a Passive endpoint that has left the wait of the handshake and goes on
\* to echo to client_addr, after a comparison of known bytes, has last
\* received (into buffer and client_addr) a datagram whose payload is the
\* token.
C2_Claim ==
  (/\ pc["P"] = "hs_echo"
   /\ HsRcvd("P") # <<>>
   /\ Strncmp(MAGIC_WORD, buffer["P"], ServerCmpLen) = {0})
  => IsToken(Last(HsRcvd("P")))

\* the payload differs from the token in a byte it holds
Differs(d) == Strncmp(MAGIC_WORD, d.data, ServerCmpLen) = {1}

\* C3: a Passive endpoint never terminates on a handshake datagram whose
\* payload differs from the token: it has not exited, with no call of its own
\* failed, while the last datagram it received was such a datagram of the
\* handshake.
C3_Claim ==
  ~ (/\ pc["P"] = "exited"
     /\ failed["P"] = {}
     /\ rcvd["P"] # <<>>
     /\ Last(rcvd["P"]).hs
     /\ Differs(Last(rcvd["P"])))

\* C4: when the Passive endpoint echoes, after a comparison of known bytes,
\* it sends one datagram, the token, to an address X from which it received a
\* datagram holding the token, its peer address is X, and it has sent no
\* datagram before.
C4_Claim ==
  [][(/\ pc["P"] = "hs_echo"
      /\ pc'["P"] # "hs_echo"
      /\ Strncmp(MAGIC_WORD, buffer["P"], ServerCmpLen) = {0})
     => /\ Len(sent'["P"]) = 1
        /\ IsToken(sent'["P"][1])
        /\ PeerAddr("P")' = sent'["P"][1].dst
        /\ \E i \in DOMAIN rcvd["P"] :
             /\ HasToken(rcvd["P"][i])
             /\ rcvd["P"][i].src = sent'["P"][1].dst]_vars

\* C5: an Active endpoint in the relay loop, none of whose calls failed, has
\* received a handshake reply, and the reply's payload is the token.
C5_Claim ==
  (InRelay("A") /\ failed["A"] = {})
    => HsRcvd("A") # <<>> /\ IsToken(Last(HsRcvd("A")))

\* the calls of the relay loop's two transfers
RelayCalls == {"read", "sendto", "recvfrom", "write"}

\* C6: in v2's relay loop, a received datagram makes its source the tracked
\* peer address whatever it holds, the address stays until the next datagram
\* is received, and every send of the loop is addressed to the tracked one.
C6_LastSenderWins ==
  [][\A e \in Endpoints :
       (variant = 2 /\ InRelay(e)) =>
         /\ rcvd'[e] # rcvd[e] => remote_addr'[e] = Last(rcvd'[e]).src
         /\ sent'[e] # sent[e] => Last(sent'[e]).dst = remote_addr[e]
         /\ (rcvd'[e] = rcvd[e] /\ rcvd[e] # <<>> /\ ~Last(rcvd[e]).hs)
              => remote_addr'[e] = Last(rcvd[e]).src]_vars

\* v2: P learnt the third sender's address in the relay loop and sent its
\* next frame there
C6_Witness ==
  /\ variant = 2
  /\ rcvd["P"] # <<>> /\ ~Last(rcvd["P"]).hs /\ Last(rcvd["P"]).src = AddrX
  /\ HsSent("P") # <<>> /\ HsSent("P")[1].dst = AddrA
  /\ sent["P"] # <<>> /\ ~Last(sent["P"]).hs /\ Last(sent["P"]).dst = AddrX

\* a write() on e's tun/tap succeeded whose buffer starts with frame f
Written(e, f) ==
  \E i \in DOMAIN tapOut[e] : tapOut[e][i].ok /\ IsPrefix(f, tapOut[e][i].data)

Readable(e, f) == \E i \in DOMAIN tapIn[e] : tapIn[e][i] = f

\* C7: with both endpoints in the relay loop, no failing call and no third
\* sender, a frame readable on one endpoint's tun/tap is eventually written,
\* at the start of the buffer, to the other endpoint's tun/tap.
C7_FramesArrive ==
  \A e \in Endpoints, k \in 1..MaxEvents, n \in 1..MaxFrameLen :
    [](BothInRelay /\ Readable(e, Frame(e, k, n))
         => <>Written(Other(e), Frame(e, k, n)))

C7_Witness ==
  \E e \in Endpoints, n \in 1..MaxFrameLen :
    /\ BothInRelay
    /\ nframes[e] = 1
    /\ Written(Other(e), Frame(e, 1, n))

\* C8: a pass of the relay loop's tun/tap branch that reads a frame makes one
\* sendto() call, addressed to the peer address of that moment, whose buffer
\* starts with the frame; the datagram of a call that succeeds is queued on
\* the socket bound to that address, with the local address of the sender's
\* socket after the call as its source.
C8_OneDatagramPerFrame ==
  [][\A e \in Endpoints :
       (pc[e] = "relay_tap" /\ tapIn[e] # <<>> /\ tapIn'[e] = Tail(tapIn[e]))
       => /\ Len(sent'[e]) = Len(sent[e]) + 1
          /\ SubSeq(sent'[e], 1, Len(sent[e])) = sent[e]
          /\ Last(sent'[e]).dst = PeerAddr(e)
          /\ ~Last(sent'[e]).hs
          /\ IsPrefix(Head(tapIn[e]), Last(sent'[e]).data)
          /\ \A x \in Endpoints :
               sockq'[x] =
                 IF Last(sent'[e]).ok /\ laddr'[x] = PeerAddr(e)
                   THEN Append(sockq[x], [src |-> laddr'[e],
                                          len |-> Last(sent'[e]).len,
                                          data |-> Last(sent'[e]).data])
                   ELSE sockq[x]]_vars

C8_Witness ==
  \E e \in Endpoints, n \in 1..MaxFrameLen :
    /\ sent[e] # <<>>
    /\ ~Last(sent[e]).hs /\ Last(sent[e]).ok
    /\ IsPrefix(Frame(e, 1, n), Last(sent[e]).data)
    /\ Last(sent[e]).dst = HostAddr(Other(e))

\* C9: a Passive endpoint in the relay loop that receives the handshake's
\* datagram again (the token, from the Active endpoint) goes on to the next
\* select().
C9_TokenAgain ==
  [][(/\ pc["P"] = "relay_sock"
      /\ rcvd'["P"] # rcvd["P"]
      /\ IsToken(Last(rcvd'["P"]))
      /\ Last(rcvd'["P"]).src = AddrA)
     => pc'["P"] = "select"]_vars

C9_Witness ==
  /\ pc["P"] = "select"
  /\ Len(rcvd["P"]) = 2
  /\ rcvd["P"][1].hs /\ IsToken(rcvd["P"][1]) /\ rcvd["P"][1].src = AddrA
  /\ ~rcvd["P"][2].hs /\ IsToken(rcvd["P"][2]) /\ rcvd["P"][2].src = AddrA

\* C10: a step of the relay loop's two branches, also one in which read(),
\* sendto(), recvfrom() or write() fails, goes on to the other branch or to
\* the next select(), never to the end of the process.
C10_LoopSurvives ==
  [][\A e \in Endpoints :
       pc[e] \in {"relay_tap", "relay_sock"}
         => pc'[e] \in {pc[e], "relay_sock", "select"}]_vars

C10_Witness ==
  \E e \in Endpoints :
    pc[e] = "select" /\ failed[e] \cap RelayCalls # {}

\* the calls that set a process up: tun_alloc(), socket(), setsockopt(),
\* bind()
SetupCalls == {"tun_alloc", "socket", "setsockopt", "bind"}

\* the sendto() and the recvfrom() of the handshake
HsCalls == {"hs_sendto", "hs_recvfrom"}

\* C11: a process one of whose set-up calls failed (opening the tun/tap,
\* creating, configuring or binding the socket), and no other call of which
\* failed, has sent no datagram, has received none and is not waiting for the
\* handshake's datagram.
C11_Claim ==
  \A e \in Endpoints :
    (failed[e] # {} /\ failed[e] \subseteq SetupCalls) =>
      sent[e] = <<>> /\ rcvd[e] = <<>> /\ pc[e] # "hs_recv"

\* C12: a process whose handshake sendto() or recvfrom() failed, and no
\* other call of which failed, is never in the relay loop.
C12_Claim ==
  \A e \in Endpoints :
    (failed[e] # {} /\ failed[e] \subseteq HsCalls) => ~InRelay(e)

\* C13: the step in which select() of e is interrupted for the first time
\* leaves e waiting in select() and changes nothing else: no address, no
\* buffer, no queue of the socket or of the tun/tap, no datagram sent, none
\* received, nothing written to the tun/tap.
C13_InterruptedWait ==
  [][\A e \in Endpoints :
       ("EINTR" \in failed'[e] /\ "EINTR" \notin failed[e]) =>
          /\ pc[e] = "select" /\ pc'[e] = "select"
          /\ UNCHANGED <<pc, laddr, buffer, addrs, rd_set, sockq, tapIn,
                         tapOut, sent, rcvd>>]_vars

\* select() of a process was interrupted and the process is back in select()
\* with a frame or a datagram waiting for it
C13_Witness ==
  \E e \in Endpoints :
    "EINTR" \in failed[e] /\ pc[e] = "select" /\ Ready(e) # {}

\* C14: a process in the relay loop stays in it, except that a step in which
\* its select() fails for another reason than an interruption ends it; and
\* every such failure ends the process.
C14_OnlySelectLeaves ==
  [][\A e \in Endpoints :
       /\ (InRelay(e) /\ ~InRelay(e)') =>
             /\ pc[e] = "select" /\ pc'[e] = "exited"
             /\ "select" \in failed'[e] /\ "select" \notin failed[e]
       /\ ("select" \in failed'[e] /\ "select" \notin failed[e]) =>
             pc[e] = "select" /\ pc'[e] = "exited"]_vars

\* a process left the relay loop on a failure of select() after it had
\* relayed a frame or a datagram
C14_Witness ==
  \E e \in Endpoints :
    /\ pc[e] = "exited" /\ "select" \in failed[e]
    /\ (tapOut[e] # <<>> \/ \E i \in DOMAIN sent[e] : ~sent[e][i].hs)

\* C15: the Active endpoint calls the handshake's sendto() at most once, and,
\* when no call of it other than the handshake's recvfrom() failed, it is in
\* the relay loop only after recvfrom() returned it a datagram during the
\* handshake.
C15_Claim ==
  /\ Len(HsSent("A")) <= 1
  /\ (InRelay("A") /\ failed["A"] \subseteq {"hs_recvfrom"}) =>
        HsRcvd("A") # <<>>

\* C16: in v1 the destination of the relay loop's sendto() does not change
\* while the process, no call of which failed, is in the relay loop.
C16_Claim ==
  [][\A e \in Endpoints :
       (variant = 1 /\ InRelay(e) /\ failed'[e] = {}) =>
          PeerAddr(e)' = PeerAddr(e)]_vars

Both == {"tap_fd", "sock_fd"}

\* the relay loop's sendto() calls of e
IsRelay(r) == ~r.hs

RelaySent(e) == SelectSeq(sent[e], IsRelay)

\* C17 as stated: in an iteration of the relay loop in which select()
\* reported the tun/tap and its frame was read, no datagram is taken from
\* the socket.
C17_Original ==
  [][\A e \in Endpoints :
       (pc[e] = "relay_sock" /\ "tap_fd" \in rd_set[e] /\ failed'[e] = {}) =>
          rcvd'[e] = rcvd[e]]_vars

\* C17: in one iteration of the relay loop each source is read at most once
\* and only if select() reported it: a frame leaves the tun/tap of a process
\* that goes on only in the step of the tun/tap branch, one at a time, a
\* datagram leaves the socket only in the step of the socket branch, one at a
\* time, the tun/tap branch is not run again before the next select(); and
\* when select() reported both, the socket branch follows the tun/tap branch
\* in the same iteration.
C17_EachSourceOnce ==
  [][\A e \in Endpoints :
       /\ (tapIn'[e] # tapIn[e] /\ Len(tapIn'[e]) <= Len(tapIn[e])
             /\ pc'[e] # "exited") =>
             /\ pc[e] = "relay_tap" /\ "tap_fd" \in rd_set[e]
             /\ tapIn'[e] = Tail(tapIn[e])
       /\ (InRelay(e) /\ rcvd'[e] # rcvd[e]) =>
             /\ pc[e] = "relay_sock" /\ "sock_fd" \in rd_set[e]
             /\ Len(rcvd'[e]) = Len(rcvd[e]) + 1
             /\ sockq'[e] = Tail(sockq[e])
       /\ pc[e] = "relay_tap" => pc'[e] \in {"relay_tap", "relay_sock", "select"}
       /\ pc[e] = "relay_sock" => pc'[e] \in {"relay_sock", "select"}
       /\ (pc[e] = "relay_tap" /\ pc'[e] # "relay_tap"
             /\ rd_set[e] = Both) => pc'[e] = "relay_sock"]_vars

\* select() reported both, the frame was read and sent, and the process is in
\* the socket branch of the same iteration with the datagram still queued
C17_Witness ==
  \E e \in Endpoints :
    /\ pc[e] = "relay_sock" /\ rd_set[e] = Both /\ failed[e] = {}
    /\ RelaySent(e) # <<>> /\ sockq[e] # <<>>
    /\ Len(tapIn[e]) < nframes[e]

\* C18: an iteration of the relay loop starts with the tun/tap branch when
\* select() reported the tun/tap; the tun/tap branch makes one sendto() call,
\* of the frame it read when no call failed, takes that one frame from the
\* tun/tap and is followed by the socket branch when select() reported the
\* socket too; the socket branch makes one write() to the tun/tap, of the
\* datagram it received when no call failed, takes that one datagram from
\* the socket and is followed by the next select().
C18_BothServed ==
  [][\A e \in Endpoints :
       /\ (pc[e] = "select" /\ pc'[e] \in {"relay_tap", "relay_sock"}) =>
             /\ rd_set'[e] = Ready(e)
             /\ ("tap_fd" \in Ready(e)) <=> (pc'[e] = "relay_tap")
       /\ (pc[e] = "relay_tap" /\ pc'[e] # "relay_tap") =>
             /\ Len(sent'[e]) = Len(sent[e]) + 1
             /\ ~Last(sent'[e]).hs
             /\ tapOut'[e] = tapOut[e] /\ rcvd'[e] = rcvd[e]
             /\ nfail' = nfail =>
                   /\ tapIn[e] # <<>> /\ tapIn'[e] = Tail(tapIn[e])
                   /\ IsPrefix(Head(tapIn[e]), Last(sent'[e]).data)
             /\ ("sock_fd" \in rd_set[e]) <=> (pc'[e] = "relay_sock")
       /\ (pc[e] = "relay_sock" /\ pc'[e] # "relay_sock") =>
             /\ Len(tapOut'[e]) = Len(tapOut[e]) + 1
             /\ sent'[e] = sent[e] /\ tapIn'[e] = tapIn[e]
             /\ nfail' = nfail =>
                   /\ sockq[e] # <<>> /\ sockq'[e] = Tail(sockq[e])
                   /\ IsPrefix(Head(sockq[e]).data, Last(tapOut'[e]).data)
             /\ pc'[e] = "select"]_vars

\* a process whose select() reported both is back in select() with neither
\* left: its one frame was sent and the datagram, received after it into the
\* same buffer, was written to the tun/tap
C18_Witness ==
  \E e \in Endpoints :
    /\ pc[e] = "select" /\ failed[e] = {}
    /\ nframes[e] = 1 /\ tapIn[e] = <<>> /\ sockq[e] = <<>>
    /\ Len(RelaySent(e)) = 1 /\ Len(tapOut[e]) = 1
    /\ IsPrefix(Frame(e, 1, 1), RelaySent(e)[1].data)
    /\ buffer[e] = tapOut[e][1].data
    /\ ~IsPrefix(Frame(e, 1, 1), buffer[e])

\* the bytes of buf after its first n
After(buf, n) == SubSeq(buf, n + 1, Len(buf))

\* C19: every sendto() and every write() of the relay loop is called with the
\* length BUFSIZE, whatever read() or recvfrom() returned; what is sent after
\* a frame was read is the frame followed by the bytes the buffer held beyond
\* the frame's length, and what is written after a datagram was received
\* whole is the datagram followed by the bytes the buffer held beyond its
\* length.
C19_WholeBuffer ==
  [][\A e \in Endpoints :
       /\ \A i \in DOMAIN sent'[e] :
             ~sent'[e][i].hs => sent'[e][i].len = BUFSIZE
       /\ \A i \in DOMAIN tapOut'[e] : tapOut'[e][i].len = BUFSIZE
       /\ (pc[e] = "relay_tap" /\ tapIn'[e] # tapIn[e]
             /\ Len(tapIn'[e]) < Len(tapIn[e])) =>
             LET f == Head(tapIn[e]) IN
               Last(sent'[e]).data = f \o After(buffer[e], Len(f))
       /\ (pc[e] = "relay_sock" /\ rcvd'[e] # rcvd[e]) =>
             LET d == Head(sockq[e]) IN
               d.len = Len(d.data) =>
                 Last(tapOut'[e]).data = d.data \o After(buffer[e], d.len)]_vars

\* a frame of one byte was read into the buffer that held the token, and the
\* datagram sent for it has BUFSIZE bytes: the frame, then the token's bytes
\* from the second on
C19_Witness ==
  \E e \in Endpoints :
    \E i \in DOMAIN sent[e] :
      /\ ~sent[e][i].hs /\ sent[e][i].len = BUFSIZE
      /\ sent[e][i].data = Frame(e, 1, 1) \o After(MAGIC_WORD, 1)

\* C20: the step in which the Active endpoint receives its handshake reply
\* and enters the relay loop makes the reply's source the destination of the
\* loop's sendto(), whatever the configured server address; the destination
\* does not change while the loop waits in select() or runs its tun/tap
\* branch, and the sendto() of that branch is addressed to it.
C20_ReplySource ==
  [][/\ (pc["A"] = "hs_recv" /\ rcvd'["A"] # rcvd["A"] /\ InRelay("A")') =>
          PeerAddr("A")' = Last(rcvd'["A"]).src
     /\ pc["A"] \in {"select", "relay_tap"} =>
          PeerAddr("A")' = PeerAddr("A")
     /\ (pc["A"] = "relay_tap" /\ sent'["A"] # sent["A"]) =>
          Last(sent'["A"]).dst = PeerAddr("A")]_vars

\* the only datagram the Active endpoint received is a handshake reply from
\* another address than the configured server, and the relay loop sent a
\* frame to that address
C20_Witness ==
  /\ InRelay("A") /\ Len(rcvd["A"]) = 1 /\ rcvd["A"][1].hs
  /\ rcvd["A"][1].src # ConfiguredServer
  /\ RelaySent("A") # <<>>
  /\ Last(RelaySent("A")).dst = rcvd["A"][1].src

\* the datagrams recvfrom() returned to e in the relay loop
RelayRcvd(e) == SelectSeq(rcvd[e], LAMBDA r : ~r.hs)

\* the number of frames e, which has not ended, read from its tun/tap: those
\* that arrived and are not waiting
NRead(e) == nframes[e] - Len(tapIn[e])

\* data starts with the k-th frame of e's tun/tap
Carries(e, k, data) == data # <<>> /\ data[1] = FrameId(e, k)

\* the functions from 1..n to 1..m that keep the order
Increasing(n, m) ==
  {g \in [1..n -> 1..m] : \A i, j \in 1..n : i < j => g[i] < g[j]}

\* C21: the frames e read from its tun/tap are carried, in the order they
\* were read, by sendto() calls of its relay loop, and the datagrams the
\* relay loop of e received are carried, in the order they were received, by
\* its write() calls to the tun/tap.  The frames are counted while e has not
\* ended: the step that ends e makes no call and removes the frames waiting.
C21_ReceiptOrder ==
  \A e \in Endpoints :
    /\ pc[e] # "exited" =>
          \E g \in Increasing(NRead(e), Len(RelaySent(e))) :
            \A k \in 1..NRead(e) : Carries(e, k, RelaySent(e)[g[k]].data)
    /\ \E h \in Increasing(Len(RelayRcvd(e)), Len(tapOut[e])) :
          \A i \in 1..Len(RelayRcvd(e)) :
            IsPrefix(RelayRcvd(e)[i].data, tapOut[e][h[i]].data)

\* a process read two frames and sent the first before the second, and the
\* other process received both and wrote the first to its tun/tap before the
\* second
C21_Witness ==
  \E e \in Endpoints :
    /\ pc[e] # "exited" /\ NRead(e) = 2 /\ Len(RelaySent(e)) = 2
    /\ Carries(e, 1, RelaySent(e)[1].data)
    /\ Carries(e, 2, RelaySent(e)[2].data)
    /\ Len(tapOut[Other(e)]) = 2
    /\ Carries(e, 1, tapOut[Other(e)][1].data)
    /\ Carries(e, 2, tapOut[Other(e)][2].data)

\* C22: in v2, a step of the socket branch in which recvfrom() fails, the
\* only call of the process that ever failed, and so returns no datagram,
\* leaves the destination of the relay loop's sendto() unchanged.
C22_Claim ==
  [][\A e \in Endpoints :
       (variant = 2 /\ pc[e] = "relay_sock" /\ pc'[e] # "relay_sock"
          /\ rcvd'[e] = rcvd[e] /\ failed'[e] = {"recvfrom"}) =>
            remote_addr'[e] = remote_addr[e]]_vars

\* C23: in a process no call of which failed but a read() or a recvfrom() of
\* the relay loop, every sendto() of the relay loop is made in a step that
\* read a frame from the tun/tap and carries that frame, and every write() to
\* the tun/tap is made in a step that received a datagram from the socket and
\* carries that datagram.
C23_Claim ==
  [][\A e \in Endpoints :
       failed'[e] \subseteq {"read", "recvfrom"} =>
         /\ (pc[e] = "relay_tap" /\ sent'[e] # sent[e]) =>
               /\ tapIn[e] # <<>> /\ tapIn'[e] = Tail(tapIn[e])
               /\ IsPrefix(Head(tapIn[e]), Last(sent'[e]).data)
         /\ (pc[e] = "relay_sock" /\ tapOut'[e] # tapOut[e]) =>
               /\ sockq[e] # <<>> /\ sockq'[e] = Tail(sockq[e])
               /\ IsPrefix(Head(sockq[e]).data, Last(tapOut'[e]).data)]_vars

====
